---- MODULE Spec2Model ----
(***************************************************************************)
(* A model of the fraud-network widgets.                                   *)
(*                                                                         *)
(*   src/d3_graph.tsx     FraudNetworkWidget: buildGraphData, the          *)
(*                        simulation effect, nodeColor, the drag handlers  *)
(*                        and handleNodeClick                              *)
(*   src/unnamed/part_000 FraudNetwork: the tile view and its onClick      *)
(*                                                                         *)
(* JavaScript values that may be undefined are modelled as sets of at most *)
(* one element: {} is undefined, {v} is the value v.  Strings are strings, *)
(* and template literals are string concatenation of the stringified       *)
(* value, so `ph-${undefined}` is "ph-undefined" as in the source.         *)
(*                                                                         *)
(* The libraries are taken at their documented contracts: React runs an    *)
(* effect's cleanup before the effect runs again and on unmount, and sets  *)
(* a ref to null when its element is detached; d3 (select, drag, force     *)
(* simulation) is the namespace the source calls it through; event.active  *)
(* of a drag event counts the other active gestures of the drag behaviour; *)
(* a simulation runs until it is stopped or its alpha has decayed.         *)
(*                                                                         *)
(* Specifications:                                                         *)
(*   SpecBuild   one call of buildGraphData on any input                   *)
(*   SpecView    the lifecycle of FraudNetworkWidget                       *)
(*   SpecDrag    the drag handlers and the ticks of one simulation         *)
(*   SpecClick   clicks on the graph's nodes and on FraudNetwork's tiles   *)
(*   SpecColor   nodeColor on one node                                     *)
(***************************************************************************)
EXTENDS Integers, Sequences, FiniteSets, TLC

VARIABLES
    claims,             \* useWidgetParameters().claims (host parameter)
    flagSuspicious,     \* useWidgetEvents().flagSuspicious: TRUE when wired
    investigateCluster, \* useWidgetEvents().investigateCluster: TRUE when wired
    graph,              \* the value of the last buildGraphData() call
    called,             \* TRUE once buildGraphData() has been called
    phase,              \* "init", "mounted" or "unmounted": the component's life
    rendered,           \* what the last render returned: "none", "placeholder", "graph"
    svgRef,             \* TRUE when svgRef.current is an element
    surface,            \* the children of the svg element: node groups and lines
    sims,               \* every simulation created so far, in creation order
    simulationRef,      \* simulationRef.current: an index of sims, 0 for null
    cleanup,            \* the cleanup the last effect returned: the index of the
                        \* simulation it stops, 0 when the effect returned none
    gestures,           \* the active drag gestures
    lastEffect,         \* what the last effect run did: "none", "skipped", "created", "threw"
    lastClick,          \* the last click and the callbacks it invoked
    fraudNetwork,       \* the FraudNetwork tile view: its parameters and its render
    datum,              \* a node handed to nodeColor
    fill                \* the colour nodeColor returned for datum, "" before the call

hostVars == <<claims, flagSuspicious, investigateCluster>>
buildVars == <<graph, called>>
viewVars == <<phase, rendered, svgRef, surface, sims, simulationRef, cleanup,
              gestures, lastEffect>>
otherVars == <<fraudNetwork, datum, fill>>
vars == <<hostVars, buildVars, viewVars, lastClick, otherVars>>

----------------------------------------------------------------------------
(* JavaScript values *)

Undefined == {}
Some(v) == {v}
Get(o) == CHOOSE v \in o : TRUE

\* `${v}` for a string-or-undefined v
Template(v) == IF v = Undefined THEN "undefined" ELSE Get(v)

\* !n for a number-or-undefined n: undefined and 0 are falsy
Falsy(n) == n = Undefined \/ Get(n) = 0

\* claims?.objects?.length
SafeLength(c) ==
    IF c = Undefined THEN Undefined
    ELSE IF Get(c).objects = Undefined THEN Undefined
    ELSE Some(Len(Get(Get(c).objects)))

\* Array.prototype.slice(0, n)
Slice(s, n) == SubSeq(s, 1, IF Len(s) < n THEN Len(s) ELSE n)

----------------------------------------------------------------------------
(* The keyed node map: a JavaScript Map keeps insertion order, and set() on *)
(* an existing key replaces the value in place.                             *)

MapIndex(m, id) == {i \in 1..Len(m) : m[i].id = id}
MapHas(m, id) == MapIndex(m, id) # {}
MapSet(m, node) ==
    IF MapHas(m, node.id)
    THEN [m EXCEPT ![CHOOSE i \in MapIndex(m, node.id) : TRUE] = node]
    ELSE Append(m, node)

----------------------------------------------------------------------------
(* buildGraphData *)

SliceCap == 200

\* (a variant of AgentList that drops the last placeholder agent)
AgentListShort == <<"AGENT_0", "AGENT_1">>

AgentList == <<"AGENT_0", "AGENT_1", "AGENT_2">>

\* A ClaimNode; the optional fields a node kind does not set are undefined.
\* claimAmount and status are copied through for display only and left out.
BlankNode ==
    [id |-> "", type |-> "", primaryKey |-> Undefined, claimId |-> Undefined,
     anomalyScore |-> Undefined, policyholderId |-> Undefined,
     policyholderName |-> Undefined, riskProfile |-> Undefined,
     agentId |-> Undefined, agentName |-> Undefined]

ClaimNodeOf(claim) ==
    [BlankNode EXCEPT
        !.id = "claim-" \o Template(claim.primaryKey),
        !.type = "claim",
        !.primaryKey = claim.primaryKey,
        !.claimId = claim.properties.claimId,
        !.anomalyScore = claim.properties.anomalyScore,
        !.policyholderId = claim.properties.policyholderId]

PolicyholderNodeOf(phId, sampleClaim) ==
    [BlankNode EXCEPT
        !.id = "ph-" \o Template(phId),
        !.type = "policyholder",
        !.primaryKey = phId,
        !.policyholderId = phId,
        !.policyholderName = sampleClaim.properties.policyholderId,
        !.riskProfile = Some("High Risk")]

AgentNodeOf(agentId) ==
    [BlankNode EXCEPT
        !.id = "agent-" \o agentId,
        !.type = "agent",
        !.primaryKey = Some(agentId),
        !.agentId = Some(agentId),
        !.agentName = Some(agentId)]

\* Every forEach below is a loop Loop(lo, hi, acc) that applies Step(acc, i) for
\* i = lo, ..., hi in this order.  The range is split in halves, and the left
\* half's result is evaluated (its length taken) before the right half starts, so
\* that the evaluation depth stays logarithmic in the length of the list.

\* (a variant of ClaimRecords that forgets the cap)
ClaimRecordsUncapped(objects) == objects

ClaimRecords(objects) == Slice(objects, SliceCap)
PolicyholderRecords(objects) == Slice(objects, SliceCap)
LinkRecords(objects) == Slice(objects, SliceCap)

\* 1. claims.objects.slice(0, 200).forEach(claim => nodeMap.set(node.id, node))
AddClaims(objs, m) ==
    LET Step(acc, i) == MapSet(acc, ClaimNodeOf(objs[i]))
        RECURSIVE Loop(_, _, _)
        Loop(lo, hi, acc) ==
            IF lo > hi THEN acc
            ELSE IF lo = hi THEN Step(acc, lo)
            ELSE LET left == Loop(lo, (lo + hi) \div 2, acc)
                 IN  IF Len(left) >= 0 THEN Loop((lo + hi) \div 2 + 1, hi, left) ELSE left
    IN  Loop(1, Len(objs), m)

\* new Set(objs.map(c => c.properties.policyholderId)), in insertion order
PolicyholderIds(objs) ==
    LET Step(acc, i) ==
            LET v == objs[i].properties.policyholderId
            IN  IF \E j \in 1..Len(acc) : acc[j] = v THEN acc ELSE Append(acc, v)
        RECURSIVE Loop(_, _, _)
        Loop(lo, hi, acc) ==
            IF lo > hi THEN acc
            ELSE IF lo = hi THEN Step(acc, lo)
            ELSE LET left == Loop(lo, (lo + hi) \div 2, acc)
                 IN  IF Len(left) >= 0 THEN Loop((lo + hi) \div 2 + 1, hi, left) ELSE left
    IN  Loop(1, Len(objs), <<>>)

\* claims.objects.find(c => c.properties.policyholderId === phId): {} if none
FindSample(objects, phId) ==
    LET hits == {i \in 1..Len(objects) : objects[i].properties.policyholderId = phId}
    IN  IF hits = {} THEN Undefined
        ELSE Some(objects[CHOOSE i \in hits : \A j \in hits : i <= j])

\* 2. policyholderIds.forEach(phId => ...)
AddPolicyholders(objects, ids, m) ==
    LET Step(acc, i) ==
            LET phId == ids[i]
                sampleClaim == FindSample(objects, phId)
            IN  IF sampleClaim # Undefined /\ ~MapHas(acc, "ph-" \o Template(phId))
                THEN MapSet(acc, PolicyholderNodeOf(phId, Get(sampleClaim)))
                ELSE acc
        RECURSIVE Loop(_, _, _)
        Loop(lo, hi, acc) ==
            IF lo > hi THEN acc
            ELSE IF lo = hi THEN Step(acc, lo)
            ELSE LET left == Loop(lo, (lo + hi) \div 2, acc)
                 IN  IF Len(left) >= 0 THEN Loop((lo + hi) \div 2 + 1, hi, left) ELSE left
    IN  Loop(1, Len(ids), m)

\* 3. ['AGENT_0', 'AGENT_1', 'AGENT_2'].forEach(agentId => ...)
\* (the agentIds set the source fills from node.agentId just before is never read)
AddAgents(agents, m) ==
    LET Step(acc, i) ==
            IF ~MapHas(acc, "agent-" \o agents[i])
            THEN MapSet(acc, AgentNodeOf(agents[i]))
            ELSE acc
        RECURSIVE Loop(_, _, _)
        Loop(lo, hi, acc) ==
            IF lo > hi THEN acc
            ELSE IF lo = hi THEN Step(acc, lo)
            ELSE LET left == Loop(lo, (lo + hi) \div 2, acc)
                 IN  IF Len(left) >= 0 THEN Loop((lo + hi) \div 2 + 1, hi, left) ELSE left
    IN  Loop(1, Len(agents), m)

\* (a variant of CreateLinks that swaps the endpoints of each link)
CreateLinksSwapped(objs, m) ==
    LET Step(links, i) ==
            LET claimNodeId == "claim-" \o Template(objs[i].primaryKey)
                phNodeId == "ph-" \o Template(objs[i].properties.policyholderId)
            IN  IF MapHas(m, claimNodeId) /\ MapHas(m, phNodeId)
                THEN Append(links, [source |-> phNodeId, target |-> claimNodeId,
                                    type |-> "claim-policyholder"])
                ELSE links
        RECURSIVE Loop(_, _, _)
        Loop(lo, hi, acc) ==
            IF lo > hi THEN acc
            ELSE IF lo = hi THEN Step(acc, lo)
            ELSE LET left == Loop(lo, (lo + hi) \div 2, acc)
                 IN  IF Len(left) >= 0 THEN Loop((lo + hi) \div 2 + 1, hi, left) ELSE left
    IN  Loop(1, Len(objs), <<>>)

\* (a variant of CreateLinks that also ties every policyholder to AGENT_0)
CreateLinksWithAgents(objs, m) ==
    LET Step(links, i) ==
            LET claimNodeId == "claim-" \o Template(objs[i].primaryKey)
                phNodeId == "ph-" \o Template(objs[i].properties.policyholderId)
            IN  IF MapHas(m, claimNodeId) /\ MapHas(m, phNodeId)
                THEN links \o
                     <<[source |-> claimNodeId, target |-> phNodeId,
                        type |-> "claim-policyholder"],
                       [source |-> phNodeId, target |-> "agent-AGENT_0",
                        type |-> "policyholder-agent"]>>
                ELSE links
        RECURSIVE Loop(_, _, _)
        Loop(lo, hi, acc) ==
            IF lo > hi THEN acc
            ELSE IF lo = hi THEN Step(acc, lo)
            ELSE LET left == Loop(lo, (lo + hi) \div 2, acc)
                 IN  IF Len(left) >= 0 THEN Loop((lo + hi) \div 2 + 1, hi, left) ELSE left
    IN  Loop(1, Len(objs), <<>>)

\* 4. claims.objects.slice(0, 200).forEach(claim => ... links.push(...))
CreateLinks(objs, m) ==
    LET Step(links, i) ==
            LET claimNodeId == "claim-" \o Template(objs[i].primaryKey)
                phNodeId == "ph-" \o Template(objs[i].properties.policyholderId)
            IN  IF MapHas(m, claimNodeId) /\ MapHas(m, phNodeId)
                THEN Append(links, [source |-> claimNodeId, target |-> phNodeId,
                                    type |-> "claim-policyholder"])
                ELSE links
        RECURSIVE Loop(_, _, _)
        Loop(lo, hi, acc) ==
            IF lo > hi THEN acc
            ELSE IF lo = hi THEN Step(acc, lo)
            ELSE LET left == Loop(lo, (lo + hi) \div 2, acc)
                 IN  IF Len(left) >= 0 THEN Loop((lo + hi) \div 2 + 1, hi, left) ELSE left
    IN  Loop(1, Len(objs), <<>>)

\* (a variant of EmptyGuard that tests claims?.objects instead of its length)
EmptyGuardObjectsOnly(c) == SafeLength(c) = Undefined

\* the early return of buildGraphData
EmptyGuard(c) == Falsy(SafeLength(c))

buildGraphData(c) ==
    IF EmptyGuard(c) THEN [nodes |-> <<>>, links |-> <<>>]
    ELSE LET objects == Get(Get(c).objects)
             m1 == AddClaims(ClaimRecords(objects), <<>>)
             ids == PolicyholderIds(PolicyholderRecords(objects))
             m2 == AddPolicyholders(objects, ids, m1)
             m3 == AddAgents(AgentList, m2)
         IN  [nodes |-> m3, links |-> CreateLinks(LinkRecords(objects), m3)]

----------------------------------------------------------------------------
(* The inputs of the builder specification *)

MaxLen == 2     \* every list of at most MaxLen records over the small domain
MaxOver == 2    \* long lists run from SliceCap - 1 to SliceCap + MaxOver records

PrimaryKeys == {"C1", "C2"}
PolicyholderValues == {Undefined, Some("undefined"), Some("P1"), Some("P2")}

Record(pk, ph, score) ==
    [primaryKey |-> Some(pk),
     properties |-> [claimId |-> Some("CLM-" \o pk), anomalyScore |-> score,
                     policyholderId |-> ph]]

SmallRecords == {Record(pk, ph, Some(75)) : pk \in PrimaryKeys, ph \in PolicyholderValues}

SmallLists == UNION {[1..n -> SmallRecords] : n \in 0..MaxLen}

\* n records, primary keys cycling with period pkPeriod and policyholders with
\* period phPeriod (a period above n makes them all distinct)
LongList(n, pkPeriod, phPeriod) ==
    [i \in 1..n |-> Record("K" \o ToString(i % pkPeriod),
                           Some("H" \o ToString(i % phPeriod)), Some(75))]

LongLists ==
    {LongList(n, pkp, php) :
        n \in (SliceCap - 1)..(SliceCap + MaxOver),
        pkp \in {150, 1000}, php \in {1, 7, 1000}}

ObjectSet(list) == Some([objects |-> Some(list)])
NoObjects == Some([objects |-> Undefined])

BuildInputs ==
    {Undefined, NoObjects} \cup {ObjectSet(l) : l \in SmallLists \cup LongLists}

----------------------------------------------------------------------------
(* The view of FraudNetworkWidget: render, the simulation effect, the handlers *)

Points == {"p", "q"}    \* positions: an (x, y) pair is one point
Touches == {"mouse", "touch"}   \* identifiers of drag gestures
Mouse == "mouse"

AlphaTargetDrag == 3    \* alphaTarget(0.3), in tenths
AlphaTargetRest == 0    \* alphaTarget(0)

\* the return of the component
Render(c) == IF Falsy(SafeLength(c)) THEN "placeholder" ELSE "graph"

\* claims?.objects.length throws when claims is set and has no objects
UnsafeLengthThrows(c) == c # Undefined /\ Get(c).objects = Undefined

\* !svgRef.current || !claims?.objects.length, evaluated left to right
EffectThrows(ref, c) == ref /\ UnsafeLengthThrows(c)
EffectReturnsEarly(ref, c) == ~ref \/ Falsy(SafeLength(c))

\* (a variant of nodeColor whose thresholds are inclusive)
nodeColorInclusive(d) ==
    IF d.type = "claim"
    THEN LET score == IF Falsy(d.anomalyScore) THEN 0 ELSE Get(d.anomalyScore)
         IN  IF score >= 70 THEN "#ff4444"
             ELSE IF score >= 40 THEN "#ffaa00"
             ELSE "#88cc88"
    ELSE IF d.type = "policyholder"
    THEN IF d.riskProfile = Some("High Risk") THEN "#ff8800" ELSE "#66bb6a"
    ELSE "#1976d2"

nodeColor(d) ==
    IF d.type = "claim"
    THEN LET score == IF Falsy(d.anomalyScore) THEN 0 ELSE Get(d.anomalyScore)
         IN  IF score > 70 THEN "#ff4444"
             ELSE IF score > 40 THEN "#ffaa00"
             ELSE "#88cc88"
    ELSE IF d.type = "policyholder"
    THEN IF d.riskProfile = Some("High Risk") THEN "#ff8800" ELSE "#66bb6a"
    ELSE "#1976d2"

NoCalls == [flagSuspicious |-> <<>>, investigateCluster |-> <<>>, threw |-> FALSE]

\* handleNodeClick, with the callbacks its effect closed over
handleNodeClick(d, flag, cluster) ==
    IF d.type = "claim" /\ flag
    THEN [NoCalls EXCEPT !.flagSuspicious = <<[claimId |-> d.primaryKey]>>]
    ELSE IF d.type = "agent" /\ cluster
    THEN [NoCalls EXCEPT !.investigateCluster = <<[agentId |-> d.agentId]>>]
    ELSE NoCalls

\* The last click since the last render of either view, and what it invoked.
\* kind: "none", "node" (a node group of the graph) or "tile" (a FraudNetwork tile)
NoClick == [kind |-> "none", type |-> "", primaryKey |-> Undefined,
            agentId |-> Undefined, calls |-> NoCalls]

EmptySurface == [nodes |-> <<>>, lines |-> <<>>]

\* the elements the effect appends for the simulation numbered gen
Elements(g, gen) ==
    [nodes |-> [k \in 1..Len(g.nodes) |->
                   [gen |-> gen, d |-> g.nodes[k], fill |-> nodeColor(g.nodes[k])]],
     lines |-> [k \in 1..Len(g.links) |-> [gen |-> gen, d |-> g.links[k]]]]

\* d3.forceSimulation(nodes): a running simulation; the node objects get a position
NewSimulation(g, flag, cluster) ==
    [running |-> TRUE,
     alphaTarget |-> AlphaTargetRest,
     nodes |-> [id \in {g.nodes[k].id : k \in 1..Len(g.nodes)} |->
                   [x |-> "p", fx |-> Undefined]],
     flag |-> flag, cluster |-> cluster]

\* simulation.stop()
Stop(ss, i) == [ss EXCEPT ![i].running = FALSE]

\* (a variant of EffectCleanup: the effect returns no cleanup)
EffectCleanupMissing(gen) == 0

\* the cleanup the effect returns after creating the simulation numbered gen
EffectCleanup(gen) == gen

\* The node objects and the click closure of a stopped simulation that no element
\* and no gesture refers to are unreachable; they are dropped from the state.
Unreachable(ss, keep) ==
    [i \in 1..Len(ss) |->
        IF i # keep /\ ~ss[i].running /\ ~\E h \in gestures : h.gen = i
        THEN [ss[i] EXCEPT !.nodes = [id \in {} |-> 0], !.flag = FALSE, !.cluster = FALSE]
        ELSE ss[i]]

\* One render and commit with the dependencies of the effect changed: the
\* component returns its output, React attaches or detaches the svg element, runs
\* the cleanup of the previous effect and then the effect.
Commit(c, f, i) ==
    LET out == Render(c)
        kept == rendered = "graph" /\ out = "graph"
        ref == out = "graph"
        cleaned == IF cleanup # 0 THEN Stop(sims, cleanup) ELSE sims
        gen == Len(sims) + 1
        g == buildGraphData(c)
        stopped == IF simulationRef # 0 THEN Stop(cleaned, simulationRef) ELSE cleaned
    IN  IF EffectThrows(ref, c)
        THEN /\ phase' = "unmounted"
             /\ rendered' = "none"
             /\ svgRef' = FALSE
             /\ surface' = EmptySurface
             /\ sims' = Unreachable(cleaned, 0)
             /\ cleanup' = 0
             /\ lastEffect' = "threw"
             /\ UNCHANGED <<simulationRef, graph, called>>
        ELSE IF EffectReturnsEarly(ref, c)
        THEN /\ phase' = "mounted"
             /\ rendered' = out
             /\ svgRef' = ref
             /\ surface' = IF kept THEN surface ELSE EmptySurface
             /\ sims' = Unreachable(cleaned, 0)
             /\ cleanup' = 0
             /\ lastEffect' = "skipped"
             /\ UNCHANGED <<simulationRef, graph, called>>
        ELSE /\ phase' = "mounted"
             /\ rendered' = out
             /\ svgRef' = ref
             /\ graph' = g
             /\ called' = TRUE
             /\ surface' = Elements(g, gen)
             /\ sims' = Unreachable(Append(stopped, NewSimulation(g, f, i)), gen)
             /\ simulationRef' = gen
             /\ cleanup' = EffectCleanup(gen)
             /\ lastEffect' = "created"

MaxSims == 3    \* at most MaxSims simulations are created in one run

CanCommit(c) == Render(c) = "placeholder" \/ Len(sims) < MaxSims

ViewRecords ==
    {Record("C1", Some("P1"), Some(75)), Record("C2", Some("P1"), Undefined)}
ViewLists == {<<>>} \cup {<<r>> : r \in ViewRecords}
ViewInputs == {Undefined, NoObjects} \cup {ObjectSet(l) : l \in ViewLists}

\* the tile view before its first render, and no node handed to nodeColor
InitOther ==
    /\ fraudNetwork = [claims |-> Undefined, flagSuspicious |-> FALSE,
                       view |-> "none", tiles |-> <<>>]
    /\ datum = BlankNode
    /\ fill = ""

InitView ==
    /\ phase = "init"
    /\ rendered = "none"
    /\ svgRef = FALSE
    /\ surface = EmptySurface
    /\ sims = <<>>
    /\ simulationRef = 0
    /\ cleanup = 0
    /\ gestures = {}
    /\ lastEffect = "none"

\* the first render of the component
Mount ==
    /\ phase = "init"
    /\ Commit(claims, flagSuspicious, investigateCluster)
    /\ lastClick' = NoClick
    /\ UNCHANGED <<hostVars, gestures, otherVars>>

\* the host supplies a new claims object set
HostSetsClaims(c) ==
    /\ phase = "mounted"
    /\ CanCommit(c)
    /\ claims' = c
    /\ Commit(c, flagSuspicious, investigateCluster)
    /\ lastClick' = NoClick
    /\ UNCHANGED <<flagSuspicious, investigateCluster, gestures, otherVars>>

\* the host supplies new event callbacks (or none)
HostSetsEvents(f, i) ==
    /\ phase = "mounted"
    /\ CanCommit(claims)
    /\ flagSuspicious' = f
    /\ investigateCluster' = i
    /\ Commit(claims, f, i)
    /\ lastClick' = NoClick
    /\ UNCHANGED <<claims, gestures, otherVars>>

\* component teardown: React detaches the svg element and runs the cleanup
Unmount ==
    /\ phase = "mounted"
    /\ phase' = "unmounted"
    /\ rendered' = "none"
    /\ svgRef' = FALSE
    /\ surface' = EmptySurface
    /\ sims' = Unreachable(IF cleanup # 0 THEN Stop(sims, cleanup) ELSE sims, 0)
    /\ cleanup' = 0
    /\ lastClick' = NoClick
    /\ UNCHANGED <<hostVars, buildVars, simulationRef, gestures, lastEffect, otherVars>>

\* .on('click', (event, d) => handleNodeClick(d)) on the k-th node group
ClickNode(k) ==
    /\ phase = "mounted"
    /\ k \in 1..Len(surface.nodes)
    /\ LET e == surface.nodes[k]
       IN  lastClick' = [kind |-> "node", type |-> e.d.type,
                         primaryKey |-> e.d.primaryKey, agentId |-> e.d.agentId,
                         calls |-> handleNodeClick(e.d, sims[e.gen].flag, sims[e.gen].cluster)]
    /\ UNCHANGED <<hostVars, buildVars, viewVars, otherVars>>

\* event.active of the drag behaviour of simulation gen: its active gestures
Active(gs, gen) == Cardinality({h \in gs : h.gen = gen})

\* dragstarted, on the k-th node group, for the gesture t
DragStart(t, k) ==
    /\ phase = "mounted"
    /\ k \in 1..Len(surface.nodes)
    /\ ~\E h \in gestures : h.touch = t
    /\ LET e == surface.nodes[k]
           gen == e.gen
           id == e.d.id
           x == sims[gen].nodes[id].x
       IN  /\ gestures' = gestures \cup {[touch |-> t, gen |-> gen, node |-> id, at |-> x]}
           /\ sims' = [sims EXCEPT
                          ![gen].alphaTarget =
                              IF Active(gestures, gen) = 0 THEN AlphaTargetDrag ELSE @,
                          ![gen].running =
                              IF Active(gestures, gen) = 0 THEN TRUE ELSE @,
                          ![gen].nodes[id].fx = Some(x)]
    /\ UNCHANGED <<hostVars, buildVars, phase, rendered, svgRef, surface,
                   simulationRef, cleanup, lastEffect, lastClick, otherVars>>

\* dragged: the pointer of gesture h moves to p
Drag(h, p) ==
    /\ h \in gestures
    /\ gestures' = (gestures \ {h}) \cup {[h EXCEPT !.at = p]}
    /\ sims' = [sims EXCEPT ![h.gen].nodes[h.node].fx = Some(p)]
    /\ UNCHANGED <<hostVars, buildVars, phase, rendered, svgRef, surface,
                   simulationRef, cleanup, lastEffect, lastClick, otherVars>>

\* (a variant of DragEnd that resets the alpha target but keeps the pin)
DragEndKeepsPin(h) ==
    /\ h \in gestures
    /\ gestures' = gestures \ {h}
    /\ sims' = [sims EXCEPT
                   ![h.gen].alphaTarget =
                       IF Active(gestures \ {h}, h.gen) = 0 THEN AlphaTargetRest ELSE @]
    /\ UNCHANGED <<hostVars, buildVars, phase, rendered, svgRef, surface,
                   simulationRef, cleanup, lastEffect, lastClick, otherVars>>

\* dragended: the gesture h ends
DragEnd(h) ==
    /\ h \in gestures
    /\ gestures' = gestures \ {h}
    /\ sims' = [sims EXCEPT
                   ![h.gen].alphaTarget =
                       IF Active(gestures \ {h}, h.gen) = 0 THEN AlphaTargetRest ELSE @,
                   ![h.gen].nodes[h.node].fx = Undefined]
    /\ UNCHANGED <<hostVars, buildVars, phase, rendered, svgRef, surface,
                   simulationRef, cleanup, lastEffect, lastClick, otherVars>>

\* one step of a running simulation: a pinned node sits at its pin, the forces
\* move the others (the tick callback copies the positions to the elements)
Tick(i) ==
    /\ i \in 1..Len(sims)
    /\ sims[i].running
    /\ \E pos \in [DOMAIN sims[i].nodes -> Points] :
          /\ \A id \in DOMAIN sims[i].nodes :
                sims[i].nodes[id].fx # Undefined => pos[id] = Get(sims[i].nodes[id].fx)
          /\ sims' = [sims EXCEPT
                         ![i].nodes = [id \in DOMAIN sims[i].nodes |->
                                          [sims[i].nodes[id] EXCEPT !.x = pos[id]]]]
    /\ UNCHANGED <<hostVars, buildVars, phase, rendered, svgRef, surface,
                   simulationRef, cleanup, gestures, lastEffect, lastClick, otherVars>>

\* a running simulation whose alpha target is 0 cools down and stops its timer
Cool(i) ==
    /\ i \in 1..Len(sims)
    /\ sims[i].running
    /\ sims[i].alphaTarget = AlphaTargetRest
    /\ sims' = Stop(sims, i)
    /\ UNCHANGED <<hostVars, buildVars, phase, rendered, svgRef, surface,
                   simulationRef, cleanup, gestures, lastEffect, lastClick, otherVars>>

InitHost ==
    /\ claims \in ViewInputs
    /\ flagSuspicious \in BOOLEAN
    /\ investigateCluster \in BOOLEAN
    /\ graph = [nodes |-> <<>>, links |-> <<>>]
    /\ called = FALSE
    /\ InitView
    /\ lastClick = NoClick
    /\ InitOther

\* The lifecycle specification: renders, teardown, and the handlers that start,
\* restart or cool a simulation.  One gesture (the mouse) is enough here; positions
\* and several gestures at once are explored by SpecDrag, clicks by SpecClick.
NextView ==
    \/ Mount
    \/ \E c \in ViewInputs : HostSetsClaims(c)
    \/ \E f, i \in BOOLEAN : HostSetsEvents(f, i)
    \/ Unmount
    \/ \E k \in 1..Len(surface.nodes) : DragStart(Mouse, k)
    \/ \E h \in gestures : DragEnd(h)
    \/ \E i \in 1..Len(sims) : Cool(i)

SpecView == InitHost /\ [][NextView]_vars

InitDrag ==
    /\ claims \in {ObjectSet(l) : l \in ViewLists \ {<<>>}}
    /\ flagSuspicious = TRUE
    /\ investigateCluster = TRUE
    /\ graph = [nodes |-> <<>>, links |-> <<>>]
    /\ called = FALSE
    /\ InitView
    /\ lastClick = NoClick
    /\ InitOther

NextDrag ==
    \/ Mount
    \/ \E t \in Touches, k \in 1..Len(surface.nodes) : DragStart(t, k)
    \/ \E h \in gestures, p \in Points : Drag(h, p)
    \/ \E h \in gestures : DragEnd(h)
    \/ \E i \in 1..Len(sims) : Tick(i)
    \/ \E i \in 1..Len(sims) : Cool(i)

SpecDrag == InitDrag /\ [][NextDrag]_vars

----------------------------------------------------------------------------
(* FraudNetwork, the tile view of src/unnamed/part_000 *)

TileCap == 20

\* claims.objects.filter(c => c.properties.anomalyScore > 70); undefined > 70 is false
RECURSIVE HighRisk(_)
HighRisk(objects) ==
    IF objects = <<>> THEN <<>>
    ELSE LET c == Head(objects)
             rest == HighRisk(Tail(objects))
         IN  IF c.properties.anomalyScore # Undefined /\ Get(c.properties.anomalyScore) > 70
             THEN <<c>> \o rest ELSE rest

\* the render of FraudNetwork: !claims?.objects.length throws when claims has no
\* objects; otherwise the placeholder, or a tile per high-risk claim up to TileCap
FraudNetworkView(c) ==
    IF UnsafeLengthThrows(c) THEN [view |-> "threw", tiles |-> <<>>]
    ELSE IF Falsy(SafeLength(c)) THEN [view |-> "placeholder", tiles |-> <<>>]
    ELSE [view |-> "tiles", tiles |-> Slice(HighRisk(Get(Get(c).objects)), TileCap)]

\* a tile's onClick: () => flagSuspicious({ claimId: claim.primaryKey }), unguarded
TileOnClick(claim, flag) ==
    IF flag
    THEN [NoCalls EXCEPT !.flagSuspicious = <<[claimId |-> claim.primaryKey]>>]
    ELSE [NoCalls EXCEPT !.threw = TRUE]

\* the host supplies the tile view's parameter and event, and the view renders
RenderFraudNetwork(c, f) ==
    /\ fraudNetwork.view # "threw"
    /\ fraudNetwork' = [claims |-> c, flagSuspicious |-> f,
                        view |-> FraudNetworkView(c).view,
                        tiles |-> FraudNetworkView(c).tiles]
    /\ lastClick' = NoClick
    /\ UNCHANGED <<hostVars, buildVars, viewVars, datum, fill>>

ClickTile(k) ==
    /\ fraudNetwork.view = "tiles"
    /\ k \in 1..Len(fraudNetwork.tiles)
    /\ LET claim == fraudNetwork.tiles[k]
       IN  lastClick' = [kind |-> "tile", type |-> "claim",
                         primaryKey |-> claim.primaryKey, agentId |-> Undefined,
                         calls |-> TileOnClick(claim, fraudNetwork.flagSuspicious)]
    /\ UNCHANGED <<hostVars, buildVars, viewVars, fraudNetwork, datum, fill>>

\* a high-risk record, one at the threshold and one without a score
TileRecords ==
    <<Record("C1", Some("P1"), Some(75)), Record("C2", Some("P1"), Some(70)),
      Record("C3", Some("P2"), Undefined)>>
TileLists ==
    {<<>>, TileRecords} \cup {<<TileRecords[k]>> : k \in 1..3}
    \cup {LongList(n, 1000, 1) : n \in {TileCap - 1, TileCap + 1}}
TileInputs == {Undefined, NoObjects} \cup {ObjectSet(l) : l \in TileLists}

\* The click specification: both views, their renders and the clicks on them
NextClick ==
    \/ Mount
    \/ \E c \in ViewInputs : HostSetsClaims(c)
    \/ \E f, i \in BOOLEAN : HostSetsEvents(f, i)
    \/ \E k \in 1..Len(surface.nodes) : ClickNode(k)
    \/ \E c \in TileInputs, f \in BOOLEAN : RenderFraudNetwork(c, f)
    \/ \E k \in 1..Len(fraudNetwork.tiles) : ClickTile(k)

SpecClick == InitHost /\ [][NextClick]_vars

----------------------------------------------------------------------------
(* The colour specification: nodeColor applied to one node *)

MaxScore == 100     \* anomaly scores run from 0 to MaxScore, or are missing

ColorInputs ==
    {[BlankNode EXCEPT !.type = "claim", !.anomalyScore = sc] :
        sc \in {Undefined} \cup {Some(n) : n \in 0..MaxScore}}
    \cup {[BlankNode EXCEPT !.type = "policyholder", !.riskProfile = rp] :
            rp \in {Some("High Risk"), Some("Low Risk"), Undefined}}
    \cup {[BlankNode EXCEPT !.type = "agent"]}

InitColor ==
    /\ claims = Undefined
    /\ flagSuspicious = TRUE
    /\ investigateCluster = TRUE
    /\ graph = [nodes |-> <<>>, links |-> <<>>]
    /\ called = FALSE
    /\ InitView
    /\ lastClick = NoClick
    /\ fraudNetwork = [claims |-> Undefined, flagSuspicious |-> FALSE,
                       view |-> "none", tiles |-> <<>>]
    /\ datum \in ColorInputs
    /\ fill = ""

\* .attr('fill', d => nodeColor(d))
ApplyNodeColor ==
    /\ fill = ""
    /\ fill' = nodeColor(datum)
    /\ UNCHANGED <<hostVars, buildVars, viewVars, lastClick, fraudNetwork, datum>>

NextColor == ApplyNodeColor

SpecColor == InitColor /\ [][NextColor]_vars

----------------------------------------------------------------------------
(* The builder specification: one call of buildGraphData on any input *)

InitBuild ==
    /\ claims \in BuildInputs
    /\ flagSuspicious = TRUE
    /\ investigateCluster = TRUE
    /\ graph = [nodes |-> <<>>, links |-> <<>>]
    /\ called = FALSE
    /\ InitView
    /\ lastClick = NoClick
    /\ InitOther

CallBuildGraphData ==
    /\ ~called
    /\ graph' = buildGraphData(claims)
    /\ called' = TRUE
    /\ UNCHANGED <<hostVars, viewVars, lastClick, otherVars>>

NextBuild == CallBuildGraphData

SpecBuild == InitBuild /\ [][NextBuild]_vars

----------------------------------------------------------------------------
(* Vocabulary of the claims about the builder *)

Min(a, b) == IF a < b THEN a ELSE b

\* the input list of claim records (empty when the host supplies none)
InputRecords == IF SafeLength(claims) = Undefined THEN <<>> ELSE Get(Get(claims).objects)

\* the first 200 records
CappedRecords == SubSeq(InputRecords, 1, Min(Len(InputRecords), 200))

NodesOfType(t) == {i \in 1..Len(graph.nodes) : graph.nodes[i].type = t}
NodeIdsOfType(t) == {graph.nodes[i].id : i \in NodesOfType(t)}

DistinctPrimaryKeys == {CappedRecords[i].primaryKey : i \in 1..Len(CappedRecords)}
DistinctPolicyholderIds ==
    {CappedRecords[i].properties.policyholderId : i \in 1..Len(CappedRecords)}

EmptyGraph == [nodes |-> <<>>, links |-> <<>>]

----------------------------------------------------------------------------
(* Claims about buildGraphData, under SpecBuild *)

\* C1 as stated: for every input list, duplicates of a primaryKey included, the
\* number of 'claim' nodes returned is min(len(records), 200).
C1_ClaimCountIsMinLen ==
    called => Cardinality(NodesOfType("claim")) = Min(Len(InputRecords), 200)

\* C1 amended: the number of 'claim' nodes returned is the number of distinct
\* primaryKey values among the first 200 records (which is min(len, 200) when
\* no two of them share a primaryKey).
C1_ClaimCountIsDistinctKeys ==
    called =>
        /\ Cardinality(NodesOfType("claim")) = Cardinality(DistinctPrimaryKeys)
        /\ Cardinality(DistinctPrimaryKeys) = Len(CappedRecords)
              => Cardinality(NodesOfType("claim")) = Min(Len(InputRecords), 200)

\* a call on more than 200 records of which some share a primaryKey
C1_Witness ==
    /\ called
    /\ Len(InputRecords) > 200
    /\ Cardinality(DistinctPrimaryKeys) < 200
    /\ Cardinality(NodesOfType("claim")) = Cardinality(DistinctPrimaryKeys)

\* what C2 says of the agents of a graph
ThreeFixedAgents ==
    /\ Cardinality(NodesOfType("agent")) = 3
    /\ NodeIdsOfType("agent") = {"agent-AGENT_0", "agent-AGENT_1", "agent-AGENT_2"}
    /\ {graph.nodes[i].agentId : i \in NodesOfType("agent")}
          = {Some("AGENT_0"), Some("AGENT_1"), Some("AGENT_2")}

\* C2 as stated: every call returns exactly the three agent nodes AGENT_0,
\* AGENT_1 and AGENT_2, also on a null or zero-length list.
C2_AlwaysThreeAgents == called => ThreeFixedAgents

\* C2 amended: every call on a list of at least one record returns exactly the
\* three agent nodes AGENT_0, AGENT_1 and AGENT_2, whatever the records; a call on
\* a missing or zero-length list returns no agent node.
C2_ThreeAgentsWhenNonEmpty ==
    called =>
        /\ Len(InputRecords) > 0 => ThreeFixedAgents
        /\ Len(InputRecords) = 0 => NodesOfType("agent") = {}

\* a call on a non-empty list, returning the three agents
C2_Witness == called /\ Len(InputRecords) > 0 /\ ThreeFixedAgents

\* C3 as stated: the number of 'policyholder' nodes returned is the number of
\* distinct policyholderId values among the first 200 records.
C3_PolicyholderCount ==
    called => Cardinality(NodesOfType("policyholder")) = Cardinality(DistinctPolicyholderIds)

\* What the code does in place of C3: one 'policyholder' node per distinct key
\* `ph-${policyholderId}` among the first 200 records.
PolicyholderCountByKey ==
    called =>
        Cardinality(NodesOfType("policyholder"))
            = Cardinality({Template(v) : v \in DistinctPolicyholderIds})

\* C4: every edge's source is the id of a returned 'claim' node and its target the
\* id of a returned 'policyholder' node.
C4_EdgeEndpointsExist ==
    called =>
        \A k \in 1..Len(graph.links) :
            /\ graph.links[k].source \in NodeIdsOfType("claim")
            /\ graph.links[k].target \in NodeIdsOfType("policyholder")

\* a call on more than 200 records that returned edges
C4_Witness == called /\ Len(InputRecords) > 200 /\ Len(graph.links) >= 200

\* C9: every returned edge has kind 'claim-policyholder', and no agent node is an
\* endpoint of an edge.
C9_NoAgentEdges ==
    called =>
        \A k \in 1..Len(graph.links) :
            /\ graph.links[k].type = "claim-policyholder"
            /\ graph.links[k].source \notin NodeIdsOfType("agent")
            /\ graph.links[k].target \notin NodeIdsOfType("agent")

\* a call that returned both edges and agent nodes
C9_Witness == called /\ Len(graph.links) > 0 /\ NodesOfType("agent") # {}

----------------------------------------------------------------------------
(* Claims about clicks, under SpecClick *)

\* what C5 says of a click on a claim, an agent or a policyholder
DispatchesByType(click, wiredFlag, wiredCluster) ==
    /\ ~click.calls.threw
    /\ click.type = "claim" =>
          /\ click.calls.investigateCluster = <<>>
          /\ click.calls.flagSuspicious =
                IF wiredFlag THEN <<[claimId |-> click.primaryKey]>> ELSE <<>>
    /\ click.type = "agent" =>
          /\ click.calls.flagSuspicious = <<>>
          /\ click.calls.investigateCluster =
                IF wiredCluster THEN <<[agentId |-> click.agentId]>> ELSE <<>>
    /\ click.type = "policyholder" => click.calls = NoCalls

\* C5 as stated: a click on a claim invokes flagSuspicious exactly once with the
\* claim's primaryKey and nothing else, a click on an agent invokes
\* investigateCluster exactly once with the agentId and nothing else, a click on a
\* policyholder invokes nothing, and a click whose callback the host has not wired
\* is a no-op; for the node groups of the graph and for the tiles of FraudNetwork.
C5_ClickDispatch ==
    /\ lastClick.kind = "node" =>
          DispatchesByType(lastClick, flagSuspicious, investigateCluster)
    /\ lastClick.kind = "tile" =>
          DispatchesByType(lastClick, fraudNetwork.flagSuspicious, FALSE)

\* The part of C5 that handleNodeClick decides holds: the same statement for the
\* clicks on the node groups of the graph alone.
NodeClickDispatch ==
    lastClick.kind = "node" =>
        DispatchesByType(lastClick, flagSuspicious, investigateCluster)

----------------------------------------------------------------------------
(* Claims about the lifecycle, under SpecView *)

Running == {i \in 1..Len(sims) : sims[i].running}

\* C6: at most one simulation is running, and it is the one of the current
\* rendering pass; the surface holds the elements of that one graph only, each node
\* once; a simulation is created only with every earlier one stopped; after
\* teardown none is running.
C6_OneSimulation ==
    /\ Cardinality(Running) <= 1
    /\ \A i \in Running :
          /\ phase = "mounted"
          /\ rendered = "graph"
          /\ i = simulationRef
          /\ i = Len(sims)
          /\ cleanup = i
    /\ \A k \in 1..Len(surface.nodes) : surface.nodes[k].gen = simulationRef
    /\ \A k \in 1..Len(surface.lines) : surface.lines[k].gen = simulationRef
    /\ \A j, k \in 1..Len(surface.nodes) :
          j # k => surface.nodes[j].d.id # surface.nodes[k].d.id
    /\ rendered # "graph" => surface = EmptySurface
    /\ phase = "unmounted" => Running = {}

\* torn down after a re-render, while a drag begun on the first graph is still active
C6_Witness ==
    /\ phase = "unmounted"
    /\ Len(sims) >= 2
    /\ \E h \in gestures : h.gen = 1
    /\ Running = {}

\* C7: on an empty or missing claim list buildGraphData returns no node and no
\* edge, the view shows its placeholder, and the effect creates no simulation (and
\* none is left running).
C7_EmptyInput ==
    (phase = "mounted" /\ Len(InputRecords) = 0) =>
        /\ buildGraphData(claims) = EmptyGraph
        /\ rendered = "placeholder"
        /\ ~svgRef
        /\ lastEffect = "skipped"
        /\ Running = {}
        /\ surface = EmptySurface

\* the host replaced a drawn graph by an object set without objects
C7_Witness ==
    /\ phase = "mounted"
    /\ claims = NoObjects
    /\ rendered = "placeholder"
    /\ Len(sims) >= 1

\* The unguarded claims?.objects.length of the effect is never evaluated on an
\* object set without objects: the svg element is absent then.
EffectNeverThrows == lastEffect # "threw"

----------------------------------------------------------------------------
(* Claims about nodeColor, under SpecColor *)

\* the anomaly score of datum, a missing one counting as 0
DatumScore == IF datum.anomalyScore = Undefined THEN 0 ELSE Get(datum.anomalyScore)

\* C8: a claim node is red above 70, amber above 40 and up to 70, green up to 40
\* and when the score is missing; so 75 is red, 50 amber, 10 green, 70 amber, 40 green.
C8_ColorBuckets ==
    (fill # "" /\ datum.type = "claim") =>
        /\ DatumScore > 70 => fill = "#ff4444"
        /\ (DatumScore > 40 /\ DatumScore <= 70) => fill = "#ffaa00"
        /\ DatumScore <= 40 => fill = "#88cc88"
        /\ datum.anomalyScore = Some(75) => fill = "#ff4444"
        /\ datum.anomalyScore = Some(50) => fill = "#ffaa00"
        /\ datum.anomalyScore = Some(10) => fill = "#88cc88"
        /\ datum.anomalyScore = Some(70) => fill = "#ffaa00"
        /\ datum.anomalyScore = Some(40) => fill = "#88cc88"
        /\ datum.anomalyScore = Undefined => fill = "#88cc88"

\* a claim scored exactly 70 has been coloured amber
C8_Witness ==
    /\ datum.type = "claim"
    /\ datum.anomalyScore = Some(70)
    /\ fill = "#ffaa00"

----------------------------------------------------------------------------
(* Claims about the drag handlers, under SpecDrag *)

Pin(ss, h) == ss[h.gen].nodes[h.node].fx
SameGesture(h, o) == h.touch = o.touch

\* a simulation without an active gesture has no pinned node and alpha target 0
DragAtRest ==
    \A i \in 1..Len(sims) :
        Active(gestures, i) = 0 =>
            /\ sims[i].alphaTarget = 0
            /\ \A id \in DOMAIN sims[i].nodes : sims[i].nodes[id].fx = Undefined

\* what a step does to the gestures it starts, moves and ends
DragStep ==
    /\ \A h \in gestures' :
          IF \E o \in gestures : SameGesture(h, o)
          THEN h \notin gestures => Pin(sims', h) = Some(h.at)
          ELSE /\ Pin(sims', h) = Some(sims[h.gen].nodes[h.node].x)
               /\ Active(gestures, h.gen) = 0 =>
                     /\ sims'[h.gen].alphaTarget = 3
                     /\ sims'[h.gen].running
               /\ Active(gestures, h.gen) # 0 =>
                     sims'[h.gen].alphaTarget = sims[h.gen].alphaTarget
    /\ \A h \in gestures :
          (~\E o \in gestures' : SameGesture(h, o)) =>
              /\ Pin(sims', h) = Undefined
              /\ Active(gestures', h.gen) = 0 => sims'[h.gen].alphaTarget = 0
              /\ Active(gestures', h.gen) # 0 =>
                    sims'[h.gen].alphaTarget = sims[h.gen].alphaTarget

\* C10: a drag start pins the node at its current position and, with no other
\* gesture active, raises the alpha target to 0.3 and restarts the simulation; a
\* drag moves the pin to the cursor; a drag end releases the pin and, with no
\* gesture left, resets the alpha target to 0; so with no gesture active no node
\* is pinned and the alpha target is 0.
C10_DragProtocol == []DragAtRest /\ [][DragStep]_vars

\* one of two gestures on a node has ended: the node is unpinned while the other
\* gesture keeps the alpha target raised
C10_Witness ==
    \E h \in gestures :
        /\ Pin(sims, h) = Undefined
        /\ sims[h.gen].alphaTarget = 3
        /\ sims[h.gen].nodes[h.node].x = "q"

====
